---------------------------- MODULE Spec2Model ----------------------------
(***************************************************************************)
(* Model of the recipe converter (ewolden/recipie-upload):                  *)
(*   - the text helpers of recipe_app/utils.py, recipe_app/prompts.py and   *)
(*     the services (regex searches and substitutions over recipe text),    *)
(*   - the publishing client recipe_app/services/github_pr.py,              *)
(*   - the Streamlit workflow streamlit_app.py:main, one action per         *)
(*     section of the script, with the script's position in pc.             *)
(*                                                                          *)
(* Text is a sequence of tokens.  A token is a string that the regular      *)
(* expressions of the program treat as a unit: a key word ("title",         *)
(* "technical_", "description", "date"), a punctuation character ("=",      *)
(* the double quote), a whitespace character (" ", "\n"), a fence marker    *)
(* or a word of payload.  "technical_title" is the two tokens "technical_"  *)
(* "title", so that a search for "title" sees it the way re.search does.    *)
(***************************************************************************)
EXTENDS Integers, Sequences, FiniteSets, TLC

VARIABLES
    session,        \* st.session_state: a function from the keys present to values
    uploaded,       \* the file uploader holds an image
    pc,             \* position of the script run: idle, init, extract, page, regen, publish
    click,          \* the widget whose click caused the current run ("none": a plain rerun)
    page,           \* the page the current/last run rendered: none, input, preview
    buttons,        \* the buttons rendered by the current/last run
    errors,         \* st.error messages on screen, in order
    pr_url,         \* the pull request URL on screen (0: none)
    calls,          \* external operations issued since the user's action: <<op, ok>>
    refs,           \* hosting repository: branch name -> sha the branch was created from
    files,          \* hosting repository: set of [branch, path, content]
    pulls,          \* hosting repository: set of [number, head, base]
    text_in,        \* text helpers: the fragments of the text under test
    text_out,       \* text helpers: the result of the last helper applied
    env             \* the environment variables that are set to a non-empty value

vars == <<session, uploaded, pc, click, page, buttons, errors, pr_url, calls,
          refs, files, pulls, text_in, text_out, env>>

wfvars == <<session, uploaded, pc, click, page, buttons, errors, pr_url, calls,
            refs, files, pulls, env>>

-----------------------------------------------------------------------------
(* Tokens *)

QUOTE == "\""
NL == "\n"
SP == " "
EQ == "="
FENCE == "<fence>"      \* the three backquotes of a code fence
MARKDOWN == "markdown"
TODAY == "<today>"      \* datetime.today().strftime("%Y-%m-%d")

IsSpace(tok) == tok \in {SP, NL}

\* s[i..] begins with the tokens of k
StartsWithAt(s, i, k) ==
    /\ i + Len(k) - 1 <= Len(s)
    /\ \A j \in 1..Len(k) : s[i + j - 1] = k[j]

\* \s* from position i: the first position at or after i that holds no whitespace
SkipSpace(s, i) ==
    IF \E j \in i..Len(s) : ~IsSpace(s[j])
    THEN CHOOSE j \in i..Len(s) :
            /\ ~IsSpace(s[j])
            /\ \A h \in i..(j - 1) : IsSpace(s[h])
    ELSE Len(s) + 1

\* [^"]* from position i: the first position at or after i that holds a quote
SkipNonQuote(s, i) ==
    IF \E j \in i..Len(s) : s[j] = QUOTE
    THEN CHOOSE j \in i..Len(s) :
            /\ s[j] = QUOTE
            /\ \A h \in i..(j - 1) : s[h] # QUOTE
    ELSE Len(s) + 1

NoMatch == [found |-> FALSE, group |-> <<>>, open |-> 0, close |-> 0]

\* The regular expression  key\s*=\s*"([^"]{minLen,})"  tried at position i:
\* open and close are the positions of the two quotes.
MatchAssignAt(s, i, key, minLen) ==
    IF ~StartsWithAt(s, i, key) THEN NoMatch
    ELSE LET e == SkipSpace(s, i + Len(key))
         IN IF e > Len(s) \/ s[e] # EQ THEN NoMatch
            ELSE LET q == SkipSpace(s, e + 1)
                 IN IF q > Len(s) \/ s[q] # QUOTE THEN NoMatch
                    ELSE LET c == SkipNonQuote(s, q + 1)
                         IN IF c > Len(s) \/ c - q - 1 < minLen THEN NoMatch
                            ELSE [found |-> TRUE,
                                  group |-> SubSeq(s, q + 1, c - 1),
                                  open |-> q, close |-> c]

\* re.search: the match at the leftmost position that has one
SearchAssign(s, key, minLen) ==
    LET hits == {i \in 1..Len(s) : MatchAssignAt(s, i, key, minLen).found}
    IN IF hits = {} THEN NoMatch
       ELSE MatchAssignAt(s, CHOOSE i \in hits : \A j \in hits : i <= j, key, minLen)

-----------------------------------------------------------------------------
(* recipe_app/utils.py, recipe_app/prompts.py *)

Drop(s, n) == SubSeq(s, n + 1, Len(s))

\* re.sub(r'^<fence>(?:markdown)?\n', "", text)
StripLeadingFence(s) ==
    IF StartsWithAt(s, 1, <<FENCE, MARKDOWN, NL>>) THEN Drop(s, 3)
    ELSE IF StartsWithAt(s, 1, <<FENCE, NL>>) THEN Drop(s, 2)
    ELSE s

\* re.sub(r'\n<fence>$', "", text): $ matches at the end of the text and
\* before a newline that ends the text
StripTrailingFence(s) ==
    LET n == Len(s)
    IN IF n >= 2 /\ s[n - 1] = NL /\ s[n] = FENCE THEN SubSeq(s, 1, n - 2)
       ELSE IF n >= 3 /\ s[n - 2] = NL /\ s[n - 1] = FENCE /\ s[n] = NL
            THEN SubSeq(s, 1, n - 3) \o <<NL>>
       ELSE s

\* str.strip()
Strip(s) ==
    IF \A j \in 1..Len(s) : IsSpace(s[j]) THEN <<>>
    ELSE LET first == CHOOSE j \in 1..Len(s) :
                        ~IsSpace(s[j]) /\ \A h \in 1..(j - 1) : IsSpace(s[h])
             last == CHOOSE j \in 1..Len(s) :
                        ~IsSpace(s[j]) /\ \A h \in (j + 1)..Len(s) : IsSpace(s[h])
         IN SubSeq(s, first, last)

strip_markdown_fences(text) == Strip(StripTrailingFence(StripLeadingFence(text)))

TECHNICAL_TITLE_KEY == <<"technical_", "title">>
TITLE_KEY == <<"title">>
DESCRIPTION_KEY == <<"description">>
DATE_KEY == <<"date">>

DEFAULT_TECHNICAL_TITLE == <<"untitled-recipe">>
DEFAULT_TITLE == <<"Food Recipe">>
DEFAULT_DESCRIPTION == <<"Delicious food">>

\* "([^"]*)" in place of "([^"]+)"
TECHNICAL_TITLE_PATTERN_star(recipe_text) == SearchAssign(recipe_text, TECHNICAL_TITLE_KEY, 0)

\* TECHNICAL_TITLE_PATTERN.search(recipe_text)
TECHNICAL_TITLE_PATTERN(recipe_text) == SearchAssign(recipe_text, TECHNICAL_TITLE_KEY, 1)

extract_technical_title(recipe_text) ==
    LET match == TECHNICAL_TITLE_PATTERN(recipe_text)
    IN IF match.found THEN match.group ELSE DEFAULT_TECHNICAL_TITLE

-----------------------------------------------------------------------------
(* recipe_app/services/image_generation.py: the title and the description    *)
(* that generate_recipe_image puts into the image prompt                     *)

title_match(recipe_text) == SearchAssign(recipe_text, TITLE_KEY, 1)

description_match(recipe_text) == SearchAssign(recipe_text, DESCRIPTION_KEY, 1)

potential_title(recipe_text) ==
    IF title_match(recipe_text).found
    THEN title_match(recipe_text).group ELSE DEFAULT_TITLE

potential_description(recipe_text) ==
    IF description_match(recipe_text).found
    THEN description_match(recipe_text).group ELSE DEFAULT_DESCRIPTION

-----------------------------------------------------------------------------
(* recipe_app/services/recipe_conversion.py *)

\* re.sub(r'(date\s*=\s*)"[^"]*"', '\1"<today>"', text): every match, left to
\* right, the search resuming after the closing quote of the last one
RECURSIVE DateSubFrom(_, _)
DateSubFrom(s, i) ==
    IF i > Len(s) THEN <<>>
    ELSE LET m == MatchAssignAt(s, i, DATE_KEY, 0)
         IN IF m.found
            THEN SubSeq(s, i, m.open - 1) \o <<QUOTE, TODAY, QUOTE>>
                    \o DateSubFrom(s, m.close + 1)
            ELSE <<s[i]>> \o DateSubFrom(s, i + 1)

substitute_date(text) == DateSubFrom(text, 1)

\* call_openai_for_recipe, after the endpoint answered output_text
clean_response(output_text) == substitute_date(strip_markdown_fences(output_text))

-----------------------------------------------------------------------------
(* Texts under test: a text is written as a sequence of fragments, each one  *)
(* line of frontmatter (key = "value") or a line of body; the helpers work   *)
(* on the tokens of the text, never on the fragments.                        *)

MaxFrags == 2

FragKeys == {"title", "technical_title", "description"}

FragValues == {<<>>, <<"soup">>, <<"stew">>, <<"Roast", SP, "Chicken">>}

Fragments ==
    [key : FragKeys, spaced : BOOLEAN, value : FragValues]
        \cup {[key |-> "body", spaced |-> FALSE, value |-> <<>>]}

KeyTokens(k) ==
    CASE k = "title" -> TITLE_KEY
      [] k = "technical_title" -> TECHNICAL_TITLE_KEY
      [] k = "description" -> DESCRIPTION_KEY

Gap(f) == IF f.spaced THEN <<SP>> ELSE <<>>

FragTokens(f) ==
    IF f.key = "body" THEN <<"words", NL>>
    ELSE KeyTokens(f.key) \o Gap(f) \o <<EQ>> \o Gap(f)
            \o <<QUOTE>> \o f.value \o <<QUOTE, NL>>

RECURSIVE TextOf(_)
TextOf(frags) ==
    IF frags = <<>> THEN <<>>
    ELSE FragTokens(Head(frags)) \o TextOf(Tail(frags))

FragSeqs == UNION {[1..n -> Fragments] : n \in 0..MaxFrags}

NoResult ==
    [op |-> "none", endpoint_ok |-> TRUE, raised |-> FALSE, recipe |-> <<>>,
     technical_title |-> <<>>,
     title |-> <<>>, description |-> <<>>, message |-> <<>>,
     status |-> 0, page |-> <<>>, sent |-> <<>>, mode |-> "", jpeg |-> ""]

-----------------------------------------------------------------------------
(* The hosting repository and recipe_app/services/github_pr.py               *)

RECIPES_FOLDER == "content/post"
MASTER == <<"master">>

new_branch_name(technical_title) == <<"recipe/">> \o technical_title

file_name(technical_title) ==
    <<RECIPES_FOLDER, "/">> \o technical_title \o <<"/", "index.md">>

\* the image put beside the recipe folder instead of into it
image_file_path_flat(technical_title) ==
    <<RECIPES_FOLDER, "/">> \o technical_title \o <<".jpg">>

image_file_path(technical_title) ==
    <<RECIPES_FOLDER, "/">> \o technical_title \o <<"/", "image.jpg">>

\* final_recipe.encode("utf-8")
EncodeUtf8(text) == [utf8 |-> text]

\* the bytes of a JPEG image, as they are
ImageBytes(image) == [jpeg |-> image]

Call(op, ok) == [op |-> op, ok |-> ok]

\* The state a publish works on: the repository, the calls issued, whether an
\* exception is propagating, and the value returned.
Hosting(r, f, p, c) ==
    [refs |-> r, files |-> f, pulls |-> p, calls |-> c, raised |-> FALSE, url |-> 0,
     message |-> <<>>]

\* a call of the hosting API fails: the library's exception propagates
Raise(h, op) ==
    [h EXCEPT !.raised = TRUE, !.calls = Append(@, Call(op, FALSE)),
              !.message = <<"GithubException">>]

BranchNames(h) == {r.name : r \in h.refs}

HeadSha(h, name) == (CHOOSE r \in h.refs : r.name = name).sha

\* A path exists on a branch when it was committed there or came with the
\* commit the branch was created from.
PathExists(h, branch, path) ==
    \E f \in h.files : f.path = path /\ f.branch \in {branch, MASTER}

\* recipe_app/config.py:get_github_repo, the two variables in the order of
\* the dict that lists them
GITHUB_ENV == <<"GITHUB_ACCESS_TOKEN", "GITHUB_REPO_NAME">>

EnvNames == {GITHUB_ENV[i] : i \in DOMAIN GITHUB_ENV}

\* [name for name, value in {...}.items() if not value]
missing(e) ==
    LET unset(name) == name \notin e
    IN SelectSeq(GITHUB_ENV, unset)

\* ", ".join(names)
RECURSIVE JoinComma(_)
JoinComma(names) ==
    IF names = <<>> THEN <<>>
    ELSE IF Len(names) = 1 THEN names
    ELSE <<Head(names), ", ">> \o JoinComma(Tail(names))

MissingMessage(e) ==
    <<"Missing required environment variables for GitHub integration: ">>
        \o JoinComma(missing(e))

\* the check of the two variables left out: the client is built from whatever
\* the environment holds
get_github_repo_unchecked(h, e, fail) ==
    IF fail = "get_repo" \/ e # EnvNames THEN Raise(h, "get_repo")
    ELSE [h EXCEPT !.calls = Append(@, Call("get_repo", TRUE))]

\* get_github_repo(): RuntimeError before the client is built when a variable
\* is missing; else github_client.get_repo(repo_name), a call of the hosting API
get_github_repo(h, e, fail) ==
    IF missing(e) # <<>>
    THEN [h EXCEPT !.raised = TRUE, !.message = MissingMessage(e)]
    ELSE IF fail = "get_repo" THEN Raise(h, "get_repo")
    ELSE [h EXCEPT !.calls = Append(@, Call("get_repo", TRUE))]

\* repo = get_github_repo()
GetRepo(h, fail) ==
    IF h.raised THEN h ELSE get_github_repo(h, env, fail)

\* source = repo.get_branch("master")
GetBranch(h, fail) ==
    IF h.raised THEN h
    ELSE IF fail = "get_branch" \/ MASTER \notin BranchNames(h)
         THEN Raise(h, "get_branch")
    ELSE [h EXCEPT !.calls = Append(@, Call("get_branch", TRUE))]

\* an existing branch taken over instead of the error propagating
CreateGitRef_Reuse(h, name, sha, fail) ==
    IF h.raised THEN h
    ELSE IF fail = "create_git_ref" THEN Raise(h, "create_git_ref")
    ELSE IF name \in BranchNames(h)
         THEN [h EXCEPT !.calls = Append(@, Call("create_git_ref", FALSE))]
    ELSE [h EXCEPT !.refs = @ \cup {[name |-> name, sha |-> sha]},
                   !.calls = Append(@, Call("create_git_ref", TRUE))]

\* repo.create_git_ref(ref="refs/heads/<name>", sha=sha): the hosting API
\* refuses a reference that exists
CreateGitRef(h, name, sha, fail) ==
    IF h.raised THEN h
    ELSE IF fail = "create_git_ref" \/ name \in BranchNames(h)
         THEN Raise(h, "create_git_ref")
    ELSE [h EXCEPT !.refs = @ \cup {[name |-> name, sha |-> sha]},
                   !.calls = Append(@, Call("create_git_ref", TRUE))]

\* branch= left out of the call: the hosting API commits to the default branch
CreateFile_DefaultBranch(h, path, content, branch, fail) ==
    IF h.raised THEN h
    ELSE IF fail \/ PathExists(h, MASTER, path)
         THEN Raise(h, "create_file")
    ELSE [h EXCEPT !.files = @ \cup {[branch |-> MASTER, path |-> path,
                                      content |-> content]},
                   !.calls = Append(@, Call("create_file", TRUE))]

\* repo.create_file(path, message, content, branch): the hosting API refuses
\* a path that exists on the branch and a branch that does not exist
CreateFile(h, path, content, branch, fail) ==
    IF h.raised THEN h
    ELSE IF fail \/ branch \notin BranchNames(h) \/ PathExists(h, branch, path)
         THEN Raise(h, "create_file")
    ELSE [h EXCEPT !.files = @ \cup {[branch |-> branch, path |-> path,
                                      content |-> content]},
                   !.calls = Append(@, Call("create_file", TRUE))]

\* pr = repo.create_pull(title, body, head, base); return pr.html_url
CreatePull(h, head, base, fail) ==
    IF h.raised THEN h
    ELSE IF fail = "create_pull" \/ head \notin BranchNames(h)
         THEN Raise(h, "create_pull")
    ELSE LET number == Cardinality(h.pulls) + 1
         IN [h EXCEPT !.pulls = @ \cup {[number |-> number, head |-> head,
                                         base |-> base]},
                      !.calls = Append(@, Call("create_pull", TRUE)),
                      !.url = number]

HostingOps ==
    {"get_repo", "get_branch", "create_git_ref", "create_recipe_file",
     "create_image_file", "create_pull"}

\* the branch and the files of a publish that failed taken back
create_github_pr_rollback(h, final_recipe, compressed_image_bytes, technical_title, fail) ==
    LET h1 == GetRepo(h, fail)
        h2 == GetBranch(h1, fail)
        h3 == CreateGitRef(h2, new_branch_name(technical_title),
                           HeadSha(h2, MASTER), fail)
        h4 == CreateFile(h3, file_name(technical_title), EncodeUtf8(final_recipe),
                         new_branch_name(technical_title),
                         fail = "create_recipe_file")
        h5 == CreateFile(h4, image_file_path(technical_title),
                         ImageBytes(compressed_image_bytes),
                         new_branch_name(technical_title),
                         fail = "create_image_file")
        h6 == CreatePull(h5, new_branch_name(technical_title), MASTER, fail)
    IN IF h6.raised THEN [h6 EXCEPT !.refs = h.refs, !.files = h.files] ELSE h6

\* create_github_pr: fail names the call the environment makes fail, if any
create_github_pr(h, final_recipe, compressed_image_bytes, technical_title, fail) ==
    LET h1 == GetRepo(h, fail)
        h2 == GetBranch(h1, fail)
        h3 == CreateGitRef(h2, new_branch_name(technical_title),
                           HeadSha(h2, MASTER), fail)
        h4 == CreateFile(h3, file_name(technical_title), EncodeUtf8(final_recipe),
                         new_branch_name(technical_title),
                         fail = "create_recipe_file")
        h5 == CreateFile(h4, image_file_path(technical_title),
                         ImageBytes(compressed_image_bytes),
                         new_branch_name(technical_title),
                         fail = "create_image_file")
    IN CreatePull(h5, new_branch_name(technical_title), MASTER, fail)

-----------------------------------------------------------------------------
(* Session state: recipe_app/session_state.py, streamlit_app.py:423-430      *)

SessionKeys == {"final_recipe", "compressed_image_bytes", "technical_title", "extracted_text"}

None == "None"

SESSION_DEFAULTS ==
    [final_recipe |-> <<>>, compressed_image_bytes |-> None,
     technical_title |-> <<>>, extracted_text |-> <<>>]

\* every key is assigned its default, whether it is there or not
initialize_session_state_assign(s) == SESSION_DEFAULTS

\* st.session_state.setdefault(key, value) for every key
initialize_session_state(s) ==
    [k \in SessionKeys |-> IF k \in DOMAIN s THEN s[k] ELSE SESSION_DEFAULTS[k]]

\* for key in st.session_state.keys(): del st.session_state[key]
ClearSession(s) == [k \in {} |-> 0]

\* the image check of line 598 left out
NoImage_Unchecked(s) == FALSE

\* not st.session_state.compressed_image_bytes
NoImage(s) == s.compressed_image_bytes \in {None, ""}

-----------------------------------------------------------------------------
(* The external services, as the program sees them: an answer is a failure   *)
(* or a value                                                                *)

\* what the image endpoint may answer, recompressed to JPEG
Images == {"jpeg-1", "jpeg-2"}

Failure == [ok |-> FALSE, out |-> <<>>]

Answers(S) == {Failure} \cup {[ok |-> TRUE, out |-> x] : x \in S}

\* what the text endpoint may answer to a conversion
MaxTitles == 1

TitleWord(n) == <<"soup", "stew", "cake">>[n]

Response(n) ==
    <<FENCE, MARKDOWN, NL>>
        \o TextOf(<<[key |-> "title", spaced |-> TRUE, value |-> <<TitleWord(n)>>],
                    [key |-> "technical_title", spaced |-> TRUE,
                     value |-> <<TitleWord(n)>>]>>)
        \o <<FENCE>>

Responses == {Response(n) : n \in 1..MaxTitles} \cup {<<>>}

\* what the text endpoint may answer to an extraction
Extractions == { <<FENCE, NL, "words", NL, FENCE>>, <<SP>> }

\* what the user may type into the recipe text area of the input form
FormTexts == { <<>>, <<SP, NL>>, <<"words">> }

\* what the user may type into the recipe editor of the preview
EditTexts ==
    { <<>>,
      TextOf(<<[key |-> "technical_title", spaced |-> FALSE, value |-> <<"edited">>]>>) }

\* extract_text_from_image, given the endpoint's answer
extract_text_from_image(answer) ==
    IF ~answer.ok
    THEN [raised |-> TRUE, text |-> <<>>, calls |-> <<Call("extract_image", FALSE)>>]
    ELSE [raised |-> FALSE, text |-> strip_markdown_fences(answer.out),
          calls |-> <<Call("extract_image", TRUE)>>]

\* what requests.get(link) may end in: 0 stands for no response at all (the
\* call raises), the others for the status of the final response
Statuses == {0, 200, 204, 304, 404, 500}

\* response.raise_for_status(): HTTPError for a 4xx or 5xx status
raise_for_status(status) == status >= 400 /\ status < 600

\* the fetch gave a response and raise_for_status() let it pass
Fetched(status) == status # 0 /\ ~raise_for_status(status)

\* response.text of the page under the link
Pages == { <<>>, <<"<html>", "words", "</html>">> }

\* client.responses.create(input=page_html, instructions=...)
link_request(page_html) == [input |-> page_html, instructions |-> "extract the recipe"]

\* the endpoint's output returned as it came
extract_text_from_link_raw(fetch_ok, answer) ==
    IF ~fetch_ok
    THEN [raised |-> TRUE, text |-> <<>>, calls |-> <<Call("fetch", FALSE)>>]
    ELSE IF ~answer.ok
    THEN [raised |-> TRUE, text |-> <<>>,
          calls |-> <<Call("fetch", TRUE), Call("extract_link", FALSE)>>]
    ELSE [raised |-> FALSE, text |-> answer.out,
          calls |-> <<Call("fetch", TRUE), Call("extract_link", TRUE)>>]

\* extract_text_from_link, given the outcome of requests.get and the
\* endpoint's answer
extract_text_from_link(fetch_ok, answer) ==
    IF ~fetch_ok
    THEN [raised |-> TRUE, text |-> <<>>, calls |-> <<Call("fetch", FALSE)>>]
    ELSE IF ~answer.ok
    THEN [raised |-> TRUE, text |-> <<>>,
          calls |-> <<Call("fetch", TRUE), Call("extract_link", FALSE)>>]
    ELSE [raised |-> FALSE, text |-> Strip(strip_markdown_fences(answer.out)),
          calls |-> <<Call("fetch", TRUE), Call("extract_link", TRUE)>>]

\* the endpoint's error swallowed, an empty text returned
call_openai_for_recipe_swallow(answer) ==
    IF ~answer.ok
    THEN [raised |-> FALSE, text |-> <<>>, calls |-> <<Call("convert", FALSE)>>]
    ELSE [raised |-> FALSE, text |-> clean_response(answer.out),
          calls |-> <<Call("convert", TRUE)>>]

\* call_openai_for_recipe, given the endpoint's answer
call_openai_for_recipe(answer) ==
    IF ~answer.ok
    THEN [raised |-> TRUE, text |-> <<>>, calls |-> <<Call("convert", FALSE)>>]
    ELSE [raised |-> FALSE, text |-> clean_response(answer.out),
          calls |-> <<Call("convert", TRUE)>>]

\* convert_recipe, given the endpoint's answer
convert_recipe(answer) ==
    LET c == call_openai_for_recipe(answer)
    IN IF c.raised
       THEN [raised |-> TRUE, formatted_recipe |-> <<>>, technical_title |-> <<>>]
       ELSE [raised |-> FALSE, formatted_recipe |-> c.text,
             technical_title |-> extract_technical_title(c.text)]

\* the color modes of the image the endpoint's bytes decode to
ImageModes == {"RGB", "RGBA", "P", "L", "LA", "CMYK"}

\* if image.mode in ("RGBA", "P"): image = image.convert("RGB")
normalize_mode(mode) == IF mode \in {"RGBA", "P"} THEN "RGB" ELSE mode

\* image.save(compressed_io, format="JPEG", ...): the JPEG encoder of the
\* imaging library writes the modes 1, L, RGB, RGBX, CMYK and YCbCr, each in
\* the color space named here, and raises OSError for any other mode
JpegColorSpace(mode) ==
    CASE mode \in {"1", "L"} -> "L"
      [] mode \in {"RGB", "RGBX"} -> "RGB"
      [] mode = "CMYK" -> "CMYK"
      [] mode = "YCbCr" -> "YCbCr"
      [] OTHER -> "cannot write"

\* generate_recipe_image, lines 53-59: the recompression of the decoded image
recompress(mode) ==
    LET saved == JpegColorSpace(normalize_mode(mode))
    IN IF saved = "cannot write"
       THEN [raised |-> TRUE, jpeg |-> ""]
       ELSE [raised |-> FALSE, jpeg |-> saved]

\* the image endpoint asked a second time after it failed
generate_recipe_image_retry(recipe_text, answer) ==
    IF ~answer.ok
    THEN [raised |-> TRUE, image |-> None,
          calls |-> <<Call("image", FALSE), Call("image", FALSE)>>]
    ELSE [raised |-> FALSE, image |-> answer.out, calls |-> <<Call("image", TRUE)>>]

\* generate_recipe_image, given the image endpoint's answer (its prompt is
\* built from potential_title and potential_description)
generate_recipe_image(recipe_text, answer) ==
    IF ~answer.ok
    THEN [raised |-> TRUE, image |-> None, calls |-> <<Call("image", FALSE)>>]
    ELSE [raised |-> FALSE, image |-> answer.out, calls |-> <<Call("image", TRUE)>>]

-----------------------------------------------------------------------------
(* streamlit_app.py:main, one action per section of the script.  A click     *)
(* reruns the whole script; a button reads true only in the run its own      *)
(* click caused; st.rerun() abandons the run and starts a plain one.         *)

repo == <<refs, files, pulls>>
screen == <<errors, pr_url, buttons>>

\* The user clicks a button that is on screen, or changes a widget that is
\* no button (c = "none"); the script runs again.
Interact(c) ==
    /\ pc = "idle"
    /\ c \in buttons \cup {"none"}
    /\ pc' = "init"
    /\ click' = c
    /\ errors' = <<>>
    /\ pr_url' = 0
    /\ buttons' = {}
    /\ calls' = <<>>
    /\ UNCHANGED <<session, uploaded, page, repo, text_in, text_out, env>>

\* The user puts an image into the file uploader, or takes it out.
ChangeUpload ==
    /\ pc = "idle"
    /\ uploaded' = ~uploaded
    /\ pc' = "init"
    /\ click' = "none"
    /\ errors' = <<>>
    /\ pr_url' = 0
    /\ buttons' = {}
    /\ calls' = <<>>
    /\ UNCHANGED <<session, page, repo, text_in, text_out, env>>

\* lines 423-430
InitializeSession ==
    /\ pc = "init"
    /\ session' = initialize_session_state(session)
    /\ pc' = "extract"
    /\ UNCHANGED <<uploaded, click, page, screen, calls, repo, text_in, text_out, env>>

\* lines 439-464: the uploader and the Extract Text button
ExtractSection ==
    /\ pc = "extract"
    /\ pc' = "page"
    /\ buttons' = IF uploaded THEN buttons \cup {"extract"} ELSE buttons
    /\ IF uploaded /\ click = "extract"
       THEN \E answer \in Answers(Extractions) :
               LET r == extract_text_from_image(answer)
               IN /\ calls' = calls \o r.calls
                  /\ IF r.raised
                     THEN /\ errors' = Append(errors, "Error extracting text")
                          /\ UNCHANGED session
                     ELSE /\ session' = [session EXCEPT !.extracted_text = r.text]
                          /\ UNCHANGED errors
       ELSE UNCHANGED <<session, errors, calls>>
    /\ UNCHANGED <<uploaded, click, page, pr_url, repo, text_in, text_out, env>>

\* st.rerun() reached on every path of the submission
Outcome_AlwaysRerun(s, e, c, rerun) ==
    [session |-> s, errors |-> e, calls |-> c, rerun |-> TRUE]

\* what a submission leaves: the session, the messages shown, the calls
\* issued, and whether it ended in st.rerun()
Outcome(s, e, c, rerun) == [session |-> s, errors |-> e, calls |-> c, rerun |-> rerun]

\* the conversion started after a scrape that failed
SubmitRecipe_KeepGoing(s, recipe_link, recipe_text, fetch_ok, scraped, converted, drawn) ==
    LET l == extract_text_from_link(fetch_ok, scraped)
        lcalls == IF recipe_link THEN l.calls ELSE <<>>
        c == call_openai_for_recipe(converted)
        s1 == [s EXCEPT !.final_recipe = c.text,
                        !.technical_title = extract_technical_title(c.text)]
        g == generate_recipe_image(c.text, drawn)
        s2 == IF g.raised THEN s1 ELSE [s1 EXCEPT !.compressed_image_bytes = g.image]
    IN IF c.raised
       THEN Outcome(s, <<"An error occurred">>, lcalls \o c.calls, FALSE)
       ELSE Outcome(s2, IF g.raised THEN <<"Error generating image">> ELSE <<>>,
                    lcalls \o c.calls \o g.calls, TRUE)

\* the two checks of the text made without strip()
SubmitRecipe_Unstripped(s, recipe_link, recipe_text, fetch_ok, scraped, converted, drawn) ==
    LET l == extract_text_from_link(fetch_ok, scraped)
        text == IF recipe_link THEN l.text ELSE recipe_text
        lcalls == IF recipe_link THEN l.calls ELSE <<>>
        c == call_openai_for_recipe(converted)
        s1 == [s EXCEPT !.final_recipe = c.text,
                        !.technical_title = extract_technical_title(c.text)]
        g == generate_recipe_image(c.text, drawn)
        s2 == IF g.raised THEN s1 ELSE [s1 EXCEPT !.compressed_image_bytes = g.image]
    IN IF ~recipe_link /\ recipe_text = <<>>
       THEN Outcome(s, <<"Please provide either a link or some recipe text.">>,
                    <<>>, FALSE)
       ELSE IF recipe_link /\ l.raised
       THEN Outcome(s, <<"Error scraping recipe">>, lcalls, FALSE)
       ELSE IF text = <<>>
       THEN Outcome(s, <<"No recipe text found or scraping failed.">>, lcalls, FALSE)
       ELSE IF c.raised
       THEN Outcome(s, <<"An error occurred">>, lcalls \o c.calls, FALSE)
       ELSE Outcome(s2, IF g.raised THEN <<"Error generating image">> ELSE <<>>,
                    lcalls \o c.calls \o g.calls, TRUE)

\* lines 482-541: the input form was submitted
SubmitRecipe(s, recipe_link, recipe_text, fetch_ok, scraped, converted, drawn) ==
    LET l == extract_text_from_link(fetch_ok, scraped)
        text == IF recipe_link THEN l.text ELSE recipe_text
        lcalls == IF recipe_link THEN l.calls ELSE <<>>
        c == call_openai_for_recipe(converted)
        s1 == [s EXCEPT !.final_recipe = c.text,
                        !.technical_title = extract_technical_title(c.text)]
        g == generate_recipe_image(c.text, drawn)
        s2 == IF g.raised THEN s1 ELSE [s1 EXCEPT !.compressed_image_bytes = g.image]
    IN IF ~recipe_link /\ Strip(recipe_text) = <<>>
       THEN Outcome(s, <<"Please provide either a link or some recipe text.">>,
                    <<>>, FALSE)
       ELSE IF recipe_link /\ l.raised
       THEN Outcome(s, <<"Error scraping recipe">>, lcalls, FALSE)
       ELSE IF Strip(text) = <<>>
       THEN Outcome(s, <<"No recipe text found or scraping failed.">>, lcalls, FALSE)
       ELSE IF c.raised
       THEN Outcome(s, <<"An error occurred">>, lcalls \o c.calls, FALSE)
       ELSE Outcome(s2, IF g.raised THEN <<"Error generating image">> ELSE <<>>,
                    lcalls \o c.calls \o g.calls, TRUE)

\* lines 469-541: no final recipe, the input form
InputSection ==
    /\ pc = "page"
    /\ session.final_recipe = <<>>
    /\ page' = "input"
    /\ IF click = "convert"
       THEN \E recipe_link \in BOOLEAN :
            \E recipe_text \in IF recipe_link THEN {<<>>}
                                ELSE FormTexts \cup {session.extracted_text} :
            \E fetch_ok \in IF recipe_link THEN BOOLEAN ELSE {TRUE} :
            \E scraped \in IF recipe_link /\ fetch_ok THEN Answers(Extractions)
                            ELSE {Failure} :
            \E converted \in Answers(Responses) :
            \E drawn \in IF converted.ok THEN Answers(Images) ELSE {Failure} :
               LET r == SubmitRecipe(session, recipe_link, recipe_text, fetch_ok,
                                     scraped, converted, drawn)
               IN /\ session' = r.session
                  /\ calls' = calls \o r.calls
                  /\ IF r.rerun
                     THEN /\ pc' = "init"
                          /\ click' = "none"
                          /\ errors' = <<>>
                          /\ buttons' = {}
                     ELSE /\ pc' = "idle"
                          /\ errors' = errors \o r.errors
                          /\ buttons' = buttons \cup {"convert"}
                          /\ UNCHANGED click
       ELSE /\ pc' = "idle"
            /\ buttons' = buttons \cup {"convert"}
            /\ UNCHANGED <<session, calls, errors, click>>
    /\ UNCHANGED <<uploaded, pr_url, repo, text_in, text_out, env>>

\* the editor also re-derives the technical title from the edited text
PreviewSection_Retitle ==
    /\ pc = "page"
    /\ session.final_recipe # <<>>
    /\ page' = "preview"
    /\ pc' = "regen"
    /\ \E edited_recipe \in EditTexts \cup {session.final_recipe} :
          session' = IF edited_recipe # session.final_recipe
                     THEN [session EXCEPT !.final_recipe = edited_recipe,
                                          !.technical_title =
                                              extract_technical_title(edited_recipe)]
                     ELSE session
    /\ UNCHANGED <<uploaded, click, screen, calls, repo, text_in, text_out, env>>

\* lines 546-563: a final recipe, the editor
PreviewSection ==
    /\ pc = "page"
    /\ session.final_recipe # <<>>
    /\ page' = "preview"
    /\ pc' = "regen"
    /\ \E edited_recipe \in EditTexts \cup {session.final_recipe} :
          session' = IF edited_recipe # session.final_recipe
                     THEN [session EXCEPT !.final_recipe = edited_recipe]
                     ELSE session
    /\ UNCHANGED <<uploaded, click, screen, calls, repo, text_in, text_out, env>>

\* a failed regeneration stores the None it has instead of an image
RegenerateSection_DropOnFailure ==
    /\ pc = "regen"
    /\ IF click = "regenerate"
       THEN \E drawn \in Answers(Images) :
               LET g == generate_recipe_image(session.final_recipe, drawn)
               IN /\ calls' = calls \o g.calls
                  /\ session' = [session EXCEPT !.compressed_image_bytes = g.image]
                  /\ IF g.raised
                     THEN /\ errors' = Append(errors, "Error regenerating image")
                          /\ pc' = "publish"
                          /\ buttons' = buttons \cup {"regenerate"}
                          /\ UNCHANGED click
                     ELSE /\ pc' = "init"
                          /\ click' = "none"
                          /\ errors' = <<>>
                          /\ buttons' = {}
       ELSE /\ pc' = "publish"
            /\ buttons' = buttons \cup {"regenerate"}
            /\ UNCHANGED <<session, calls, errors, click>>
    /\ UNCHANGED <<uploaded, page, pr_url, repo, text_in, text_out, env>>

\* lines 576-591: the Regenerate Image form
RegenerateSection ==
    /\ pc = "regen"
    /\ IF click = "regenerate"
       THEN \E drawn \in Answers(Images) :
               LET g == generate_recipe_image(session.final_recipe, drawn)
               IN /\ calls' = calls \o g.calls
                  /\ IF g.raised
                     THEN /\ errors' = Append(errors, "Error regenerating image")
                          /\ pc' = "publish"
                          /\ buttons' = buttons \cup {"regenerate"}
                          /\ UNCHANGED <<session, click>>
                     ELSE /\ session' = [session EXCEPT !.compressed_image_bytes = g.image]
                          /\ pc' = "init"
                          /\ click' = "none"
                          /\ errors' = <<>>
                          /\ buttons' = {}
       ELSE /\ pc' = "publish"
            /\ buttons' = buttons \cup {"regenerate"}
            /\ UNCHANGED <<session, calls, errors, click>>
    /\ UNCHANGED <<uploaded, page, pr_url, repo, text_in, text_out, env>>

\* lines 594-624: the Create Pull Request button
PublishSection ==
    /\ pc = "publish"
    /\ IF click = "create_pr"
       THEN IF NoImage(session)
            THEN /\ errors' = Append(errors, "Please generate an image")
                 /\ pc' = "idle"
                 /\ buttons' = buttons \cup {"create_pr"}
                 /\ UNCHANGED <<session, click, pr_url, calls, repo>>
            ELSE \E fail \in HostingOps \cup {"none"} :
                    LET h == create_github_pr(Hosting(refs, files, pulls, calls),
                                              session.final_recipe,
                                              session.compressed_image_bytes,
                                              session.technical_title, fail)
                    IN /\ refs' = h.refs
                       /\ files' = h.files
                       /\ pulls' = h.pulls
                       /\ calls' = h.calls
                       /\ IF h.raised
                          THEN /\ errors' = Append(errors, "An error occurred while creating the PR")
                               /\ pc' = "idle"
                               /\ buttons' = buttons \cup {"create_pr"}
                               /\ UNCHANGED <<session, click, pr_url>>
                          ELSE /\ pr_url' = h.url
                               /\ UNCHANGED errors
                               /\ IF click = "start_new"
                                  THEN /\ session' = ClearSession(session)
                                       /\ pc' = "init"
                                       /\ click' = "none"
                                       /\ buttons' = {}
                                  ELSE /\ pc' = "idle"
                                       /\ buttons' = buttons \cup {"create_pr", "start_new"}
                                       /\ UNCHANGED <<session, click>>
       ELSE /\ pc' = "idle"
            /\ buttons' = buttons \cup {"create_pr"}
            /\ UNCHANGED <<session, click, errors, pr_url, calls, repo>>
    /\ UNCHANGED <<uploaded, page, text_in, text_out, env>>

MasterShas == {"c1"}

Init ==
    /\ session = [k \in {} |-> 0]
    /\ uploaded = FALSE
    /\ pc = "init"
    /\ click = "none"
    /\ page = "none"
    /\ buttons = {}
    /\ errors = <<>>
    /\ pr_url = 0
    /\ calls = <<>>
    /\ \E sha \in MasterShas : refs = {[name |-> MASTER, sha |-> sha]}
    /\ files = {[branch |-> MASTER, path |-> <<"README.md">>,
                 content |-> EncodeUtf8(<<"words">>)]}
    /\ pulls = {}
    /\ text_in = <<>>
    /\ text_out = NoResult
    /\ env \in SUBSET EnvNames

Next ==
    \/ \E c \in {"none", "extract", "convert", "regenerate", "create_pr", "start_new"} :
          Interact(c)
    \/ ChangeUpload
    \/ InitializeSession
    \/ ExtractSection
    \/ InputSection
    \/ PreviewSection
    \/ RegenerateSection
    \/ PublishSection

Spec == Init /\ [][Next]_vars

-----------------------------------------------------------------------------
(* The text helpers applied to the text under test                           *)

InitText ==
    /\ session = [k \in {} |-> 0]
    /\ uploaded = FALSE
    /\ pc = "init"
    /\ click = "none"
    /\ page = "none"
    /\ buttons = {}
    /\ errors = <<>>
    /\ pr_url = 0
    /\ calls = <<>>
    /\ refs = {[name |-> MASTER, sha |-> "c1"]}
    /\ files = {}
    /\ pulls = {}
    /\ text_in \in FragSeqs
    /\ text_out = NoResult
    /\ env = EnvNames

ExtractTechnicalTitle ==
    /\ text_out' = [NoResult EXCEPT
                        !.op = "extract_technical_title",
                        !.technical_title = extract_technical_title(TextOf(text_in))]
    /\ UNCHANGED <<wfvars, text_in>>

\* the endpoint answers the conversion with the text under test, or fails
ConvertRecipe ==
    /\ \E answer \in Answers({TextOf(text_in)}) :
          LET r == convert_recipe(answer)
          IN text_out' = [NoResult EXCEPT
                              !.op = "convert_recipe",
                              !.endpoint_ok = answer.ok,
                              !.raised = r.raised,
                              !.recipe = r.formatted_recipe,
                              !.technical_title = r.technical_title]
    /\ UNCHANGED <<wfvars, text_in>>

\* generate_recipe_image, lines 22-32: the title and description of the prompt
ImagePrompt ==
    /\ text_out' = [NoResult EXCEPT
                        !.op = "generate_recipe_image",
                        !.title = potential_title(TextOf(text_in)),
                        !.description = potential_description(TextOf(text_in))]
    /\ UNCHANGED <<wfvars, text_in>>

NextText == ExtractTechnicalTitle \/ ConvertRecipe \/ ImagePrompt

SpecText == InitText /\ [][NextText]_vars

-----------------------------------------------------------------------------
(* The services applied to a response under test.  The response is written   *)
(* as a sequence of lines, joined by newlines the way the endpoint sends     *)
(* them; the helpers work on the tokens of the text, never on the lines.     *)
(* A behaviour applies one service to the response (and the fence stripper   *)
(* once more to its own result).                                             *)

MaxLines == 4

LineKinds == {"fence", "fence_markdown", "blank", "words", "date", "lastupdate"}

LineTokens(kind) ==
    CASE kind = "fence" -> <<FENCE>>
      [] kind = "fence_markdown" -> <<FENCE, MARKDOWN>>
      [] kind = "blank" -> <<>>
      [] kind = "words" -> <<"words">>
      [] kind = "date" -> DATE_KEY \o <<SP, EQ, SP, QUOTE, "2020", QUOTE>>
      [] kind = "lastupdate" -> <<"lastup">> \o DATE_KEY \o <<EQ, QUOTE, "2020", QUOTE>>

\* "\n".join(lines)
RECURSIVE JoinLines(_)
JoinLines(lines) ==
    IF lines = <<>> THEN <<>>
    ELSE IF Len(lines) = 1 THEN LineTokens(lines[1])
    ELSE LineTokens(Head(lines)) \o <<NL>> \o JoinLines(Tail(lines))

LineSeqs == UNION {[1..n -> LineKinds] : n \in 0..MaxLines}

InitServices ==
    /\ session = [k \in {} |-> 0]
    /\ uploaded = FALSE
    /\ pc = "init"
    /\ click = "none"
    /\ page = "none"
    /\ buttons = {}
    /\ errors = <<>>
    /\ pr_url = 0
    /\ calls = <<>>
    /\ refs = {[name |-> MASTER, sha |-> "c1"]}
    /\ files = {}
    /\ pulls = {}
    /\ text_in \in LineSeqs
    /\ text_out = NoResult
    /\ env = EnvNames

\* strip_markdown_fences applied to the response under test
StripFences ==
    /\ text_out.op = "none"
    /\ text_out' = [NoResult EXCEPT
                        !.op = "strip_markdown_fences",
                        !.recipe = strip_markdown_fences(JoinLines(text_in))]
    /\ UNCHANGED <<wfvars, text_in>>

\* strip_markdown_fences applied to its own result
StripFencesAgain ==
    /\ text_out.op = "strip_markdown_fences"
    /\ text_out' = [text_out EXCEPT
                        !.op = "strip_markdown_fences twice",
                        !.recipe = strip_markdown_fences(text_out.recipe)]
    /\ UNCHANGED <<wfvars, text_in>>

\* call_openai_for_recipe, the endpoint answering the response under test
CleanResponse ==
    /\ text_out.op = "none"
    /\ LET c == call_openai_for_recipe([ok |-> TRUE, out |-> JoinLines(text_in)])
       IN text_out' = [NoResult EXCEPT
                           !.op = "call_openai_for_recipe",
                           !.raised = c.raised,
                           !.recipe = c.text]
    /\ UNCHANGED <<wfvars, text_in>>

\* extract_text_from_link(link): the fetch ends in status with page as the
\* body, the endpoint answers the response under test or fails
ExtractFromLink ==
    /\ text_out.op = "none"
    /\ \E status \in Statuses :
       \E page_html \in Pages :
       \E answer \in Answers({JoinLines(text_in)}) :
          LET r == extract_text_from_link(Fetched(status), answer)
              asked == \E i \in 1..Len(r.calls) : r.calls[i].op = "extract_link"
          IN /\ calls' = r.calls
             /\ text_out' = [NoResult EXCEPT
                                 !.op = "extract_text_from_link",
                                 !.status = status,
                                 !.page = page_html,
                                 !.sent = IF asked THEN link_request(page_html).input
                                          ELSE <<>>,
                                 !.endpoint_ok = answer.ok,
                                 !.raised = r.raised,
                                 !.recipe = r.text]
    /\ UNCHANGED <<session, uploaded, pc, click, page, buttons, errors, pr_url,
                   repo, text_in, env>>

\* generate_recipe_image, the endpoint's bytes decoding to an image of mode
RecompressImage ==
    /\ text_out.op = "none"
    /\ \E mode \in ImageModes :
          LET r == recompress(mode)
          IN text_out' = [NoResult EXCEPT
                              !.op = "recompress",
                              !.mode = mode,
                              !.raised = r.raised,
                              !.jpeg = r.jpeg]
    /\ UNCHANGED <<wfvars, text_in>>

NextServices ==
    \/ StripFences
    \/ StripFencesAgain
    \/ CleanResponse
    \/ ExtractFromLink
    \/ RecompressImage

SpecServices == InitServices /\ [][NextServices]_vars

-----------------------------------------------------------------------------
(* recipe_app/services/github_pr.py and recipe_app/config.py called          *)
(* directly, in any environment and on any state of the repository that      *)
(* earlier calls left                                                        *)

PublishTitles == {<<"soup">>, <<"stew">>}

InitPublish ==
    /\ session = [k \in {} |-> 0]
    /\ uploaded = FALSE
    /\ pc = "init"
    /\ click = "none"
    /\ page = "none"
    /\ buttons = {}
    /\ errors = <<>>
    /\ pr_url = 0
    /\ calls = <<>>
    /\ refs = {[name |-> MASTER, sha |-> "c1"]}
    /\ files = {[branch |-> MASTER, path |-> <<"README.md">>,
                 content |-> EncodeUtf8(<<"words">>)]}
    /\ pulls = {}
    /\ text_in = <<>>
    /\ text_out = NoResult
    /\ env \in SUBSET EnvNames

\* get_github_repo() called on its own
GetGithubRepo ==
    /\ \E fail \in {"none", "get_repo"} :
          LET h == get_github_repo(Hosting(refs, files, pulls, <<>>), env, fail)
          IN /\ calls' = h.calls
             /\ text_out' = [NoResult EXCEPT !.op = "get_github_repo",
                                             !.raised = h.raised,
                                             !.message = h.message]
    /\ pr_url' = 0
    /\ UNCHANGED <<session, uploaded, pc, click, page, buttons, errors, repo,
                   text_in, env>>

\* create_github_pr(final_recipe, compressed_image_bytes, technical_title)
PublishRecipe ==
    /\ \E technical_title \in PublishTitles :
       \E compressed_image_bytes \in Images :
       \E fail \in HostingOps \cup {"none"} :
          LET h == create_github_pr(Hosting(refs, files, pulls, <<>>),
                                    <<"words">>, compressed_image_bytes,
                                    technical_title, fail)
          IN /\ refs' = h.refs
             /\ files' = h.files
             /\ pulls' = h.pulls
             /\ calls' = h.calls
             /\ pr_url' = h.url
             /\ text_out' = [NoResult EXCEPT !.op = "create_github_pr",
                                             !.raised = h.raised,
                                             !.technical_title = technical_title,
                                             !.message = h.message]
    /\ UNCHANGED <<session, uploaded, pc, click, page, buttons, errors,
                   text_in, env>>

NextPublish == GetGithubRepo \/ PublishRecipe

SpecPublish == InitPublish /\ [][NextPublish]_vars

-----------------------------------------------------------------------------
(* One run of the script on a session and a filled input form: the session   *)
(* is initialised, and the form, when it is shown, is submitted              *)

\* the sessions in which every key holds a value
FullSessions ==
    [final_recipe : {<<>>, <<"words">>},
     compressed_image_bytes : {None, "jpeg-1"},
     technical_title : {<<>>, <<"soup">>},
     extracted_text : {<<>>, <<"words">>}]

\* the sessions a run may find: every key absent or holding a value
Sessions == { [k \in D |-> s[k]] : D \in SUBSET SessionKeys, s \in FullSessions }

\* the input form as submitted, and what the services will answer
FormInputs ==
    [recipe_link : BOOLEAN,
     recipe_text : FormTexts,
     fetch_ok : BOOLEAN,
     scraped : Answers(Extractions \cup {<<>>}),
     converted : Answers(Responses),
     drawn : Answers(Images)]

InitForm ==
    /\ session \in Sessions
    /\ uploaded = FALSE
    /\ pc = "init"
    /\ click = "convert"
    /\ page = "none"
    /\ buttons = {}
    /\ errors = <<>>
    /\ pr_url = 0
    /\ calls = <<>>
    /\ refs = {[name |-> MASTER, sha |-> "c1"]}
    /\ files = {}
    /\ pulls = {}
    /\ text_in \in FormInputs
    /\ text_out = NoResult
    /\ env = EnvNames

\* lines 469-541: no final recipe, the input form submitted as text_in has it
SubmitForm ==
    /\ pc = "page"
    /\ session.final_recipe = <<>>
    /\ click = "convert"
    /\ page' = "input"
    /\ LET r == SubmitRecipe(session, text_in.recipe_link, text_in.recipe_text,
                             text_in.fetch_ok, text_in.scraped, text_in.converted,
                             text_in.drawn)
       IN /\ session' = r.session
          /\ calls' = calls \o r.calls
          /\ IF r.rerun
             THEN /\ pc' = "init"
                  /\ click' = "none"
                  /\ errors' = <<>>
                  /\ buttons' = {}
             ELSE /\ pc' = "idle"
                  /\ errors' = errors \o r.errors
                  /\ buttons' = buttons \cup {"convert"}
                  /\ UNCHANGED click
    /\ UNCHANGED <<uploaded, pr_url, repo, text_in, text_out, env>>

NextForm == InitializeSession \/ ExtractSection \/ SubmitForm

SpecForm == InitForm /\ [][NextForm]_vars

-----------------------------------------------------------------------------
(* Properties of the workflow and of the publishing client                   *)

HostingCalls == {"get_repo", "get_branch", "create_git_ref", "create_file", "create_pull"}

\* the calls the step adds to the log (the log is emptied only by a user action)
Added == SubSeq(calls', Len(calls) + 1, Len(calls'))

Adds == Len(calls') > Len(calls)

Ops(log) == [i \in 1..Len(log) |-> log[i].op]

HasImage == session.compressed_image_bytes \notin {"None", ""}

PublishRequest == pc = "publish" /\ click = "create_pr"

MasterFiles(fs) == {f \in fs : f.branch = <<"master">>}

\* C1: the hosting API is called, and the repository changed, only while
\* compressed_image_bytes is present and non-empty; a publish request without
\* an image issues no call, changes no session field and is answered by an
\* error message.
C1_PublishRequiresImage ==
    [][ /\ (Adds /\ \E i \in 1..Len(Added) : Added[i].op \in HostingCalls)
            => "compressed_image_bytes" \in DOMAIN session /\ HasImage
        /\ (<<refs, files, pulls>>' # <<refs, files, pulls>>)
            => "compressed_image_bytes" \in DOMAIN session /\ HasImage
        /\ (PublishRequest /\ ~HasImage)
            => /\ calls' = calls
               /\ session' = session
               /\ <<refs, files, pulls>>' = <<refs, files, pulls>>
               /\ pr_url' = 0
               /\ Len(errors') = Len(errors) + 1 ]_vars

C1_Witness ==
    /\ pc = "idle"
    /\ click = "create_pr"
    /\ page = "preview"
    /\ session.compressed_image_bytes = "None"
    /\ session.final_recipe # <<>>
    /\ calls = <<>>
    /\ errors = <<"Please generate an image">>

\* C2: a publish on which every hosting call succeeds creates exactly the
\* branch recipe/T from the head of master, commits exactly index.md (the
\* UTF-8 recipe) and image.jpg (the image bytes) under content/post/T on that
\* branch, opens exactly one pull request from it, and shows that pull
\* request's URL.
C2_PublishCreatesBranchFilesPull ==
    [][ (PublishRequest /\ Adds /\ \A i \in 1..Len(Added) : Added[i].ok)
        => LET T == session.technical_title
               B == <<"recipe/">> \o T
               head == (CHOOSE r \in refs : r.name = <<"master">>).sha
               md == [branch |-> B,
                      path |-> <<"content/post", "/">> \o T \o <<"/", "index.md">>,
                      content |-> [utf8 |-> session.final_recipe]]
               jpg == [branch |-> B,
                       path |-> <<"content/post", "/">> \o T \o <<"/", "image.jpg">>,
                       content |-> [jpeg |-> session.compressed_image_bytes]]
           IN /\ Ops(Added) = <<"get_repo", "get_branch", "create_git_ref",
                                "create_file", "create_file", "create_pull">>
              /\ \A r \in refs : r.name # B
              /\ refs' = refs \cup {[name |-> B, sha |-> head]}
              /\ md \notin files /\ jpg \notin files
              /\ files' = files \cup {md, jpg}
              /\ Cardinality(pulls') = Cardinality(pulls) + 1
              /\ \E p \in pulls' \ pulls :
                    /\ pulls' = pulls \cup {p}
                    /\ p.head = B /\ p.base = <<"master">>
                    /\ pr_url' = p.number
                    /\ \A q \in pulls : q.number # p.number ]_vars

C2_Witness ==
    /\ pc = "idle"
    /\ click = "create_pr"
    /\ pr_url # 0
    /\ \E p \in pulls : p.number = pr_url /\ p.head = <<"recipe/">> \o session.technical_title
    /\ Cardinality({f \in files : f.branch = <<"recipe/">> \o session.technical_title}) = 2

\* C3: no step creates, changes or removes a file of the default branch or
\* moves its head; every file created is on branch recipe/<technical_title>.
C3_NothingOnDefaultBranch ==
    [][ /\ \A f \in files' \ files :
              /\ f.branch = <<"recipe/">> \o session.technical_title
              /\ f.branch # <<"master">>
        /\ MasterFiles(files') = MasterFiles(files)
        /\ {r \in refs' : r.name = <<"master">>} = {r \in refs : r.name = <<"master">>} ]_vars

\* a publish that failed after it had committed the recipe file
C3_Witness ==
    /\ pc = "idle"
    /\ click = "create_pr"
    /\ Len(calls) = 5
    /\ calls[4] = [op |-> "create_file", ok |-> TRUE]
    /\ calls[5] = [op |-> "create_file", ok |-> FALSE]
    /\ \E f \in files : f.branch # <<"master">>
    /\ MasterFiles(files) # {}

\* C4 (as claimed): the run caused by a click on Start New Recipe clears the
\* session, so that it ends on the input page with the four fields at their
\* defaults.
C4_StartNewRecipeResets ==
    (pc = "idle" /\ click = "start_new")
        => /\ page = "input"
           /\ session.final_recipe = <<>>
           /\ session.compressed_image_bytes = "None"
           /\ session.technical_title = <<>>
           /\ session.extracted_text = <<>>

\* the workflow step the script derives from the session (line 469)
Step(s) == IF s.final_recipe = <<>> THEN "input" ELSE "preview"

\* the step ends an external operation in failure
Fails ==
    /\ pc \in {"extract", "page", "regen", "publish"}
    /\ Adds
    /\ ~calls'[Len(calls')].ok

AutoImageFails == Fails /\ pc = "page" /\ calls'[Len(calls')].op = "image"

\* C5 (as claimed): a failure of any transition is shown and leaves the
\* workflow in the step it was in.
C5_FailureKeepsStep ==
    [][ Fails => /\ Step(session') = Step(session)
                 /\ Len(errors') = Len(errors) + 1 ]_vars

\* C5 (amended): a failure of image text extraction, link scrape, conversion,
\* image regeneration or publish is shown, ends in no rerun and leaves the
\* session as it was, hence the workflow in its step; a failure of the
\* automatic image generation is followed by st.rerun(), which takes its
\* message off the screen, keeps the converted recipe and its technical title
\* and leaves the image as it was, so the workflow moves to Preview whenever
\* the converted recipe is not empty.
C5_FailureKeepsStepButAutoImage ==
    [][ Fails =>
          IF AutoImageFails
          THEN /\ pc' = "init"
               /\ errors' = <<>>
               /\ \E r \in Responses :
                     /\ Added[Len(Added) - 1] = [op |-> "convert", ok |-> TRUE]
                     /\ session'.final_recipe = clean_response(r)
                     /\ session'.technical_title = extract_technical_title(clean_response(r))
               /\ session'.compressed_image_bytes = session.compressed_image_bytes
               /\ Step(session') = IF session'.final_recipe = <<>>
                                   THEN Step(session) ELSE "preview"
          ELSE /\ session' = session
               /\ Step(session') = Step(session)
               /\ Len(errors') = Len(errors) + 1
               /\ pc' # "init" ]_vars

\* the automatic image generation failed and the workflow is in Preview
C5_Witness ==
    /\ pc = "idle"
    /\ page = "preview"
    /\ calls = <<[op |-> "convert", ok |-> TRUE], [op |-> "image", ok |-> FALSE]>>
    /\ errors = <<>>
    /\ session.final_recipe # <<>>

\* C6 (as claimed): after a conversion that succeeded and an automatic image
\* generation that failed, the converted recipe being kept in final_recipe,
\* the image slot is empty (and so publish blocked).
C6_FailedImageLeavesSlotEmpty ==
    (/\ Len(calls) >= 2
     /\ pc \in {"init", "idle"}
     /\ session.final_recipe # <<>>
     /\ calls[Len(calls) - 1] = [op |-> "convert", ok |-> TRUE]
     /\ calls[Len(calls)] = [op |-> "image", ok |-> FALSE])
        => session.compressed_image_bytes \in {"None", ""}

\* C7: a publish whose branch recipe/<technical_title> exists commits no
\* file, opens no pull request, leaves the repository as it is and shows an
\* error; it fails at create_git_ref unless an earlier call failed.
C7_RepublishFailsAtBranchCreation ==
    [][ (/\ PublishRequest
         /\ HasImage
         /\ \E r \in refs : r.name = <<"recipe/">> \o session.technical_title)
        => /\ <<refs, files, pulls>>' = <<refs, files, pulls>>
           /\ pr_url' = 0
           /\ Len(errors') = Len(errors) + 1
           /\ Adds
           /\ \A i \in 1..Len(Added) : Added[i].op \notin {"create_file", "create_pull"}
           /\ ~Added[Len(Added)].ok
           /\ \/ Ops(Added) = <<"get_repo", "get_branch", "create_git_ref">>
              \/ Ops(Added) = <<"get_repo", "get_branch">>
              \/ Ops(Added) = <<"get_repo">> ]_vars

\* the second publish of a recipe whose pull request is open
C7_Witness ==
    /\ pc = "idle"
    /\ click = "create_pr"
    /\ Ops(calls) = <<"get_repo", "get_branch", "create_git_ref">>
    /\ ~calls[3].ok
    /\ \E p \in pulls : p.head = <<"recipe/">> \o session.technical_title
    /\ Cardinality({f \in files : f.branch = <<"recipe/">> \o session.technical_title}) = 2

\* C8: when the conversion call fails it is not repeated, no image is
\* generated, the session keeps every field, the error is shown and the run
\* ends on the input form.
C8_ConversionFailurePropagates ==
    [][ (pc = "page" /\ Adds /\ [op |-> "convert", ok |-> FALSE] \in {Added[i] : i \in 1..Len(Added)})
        => /\ session' = session
           /\ Cardinality({i \in 1..Len(Added) : Added[i].op = "convert"}) = 1
           /\ Added[Len(Added)] = [op |-> "convert", ok |-> FALSE]
           /\ \A i \in 1..Len(Added) : Added[i].op # "image"
           /\ errors' = Append(errors, "An error occurred")
           /\ pc' = "idle"
           /\ page' = "input" ]_vars

C8_Witness ==
    /\ pc = "idle"
    /\ click = "convert"
    /\ page = "input"
    /\ calls = <<[op |-> "convert", ok |-> FALSE]>>
    /\ errors = <<"An error occurred">>
    /\ session.final_recipe = <<>>

-----------------------------------------------------------------------------
(* Properties of the text helpers                                            *)

\* the positions of the fragments of the text under test that assign key
Assigning(key) == {i \in 1..Len(text_in) : text_in[i].key = key}

Valued(key) == {i \in Assigning(key) : text_in[i].value # <<>>}

First(S) == CHOOSE i \in S : \A j \in S : i <= j

Extracted == text_out.op = "extract_technical_title"

Converted == text_out.op = "convert_recipe" /\ text_out.endpoint_ok

\* C9 (as claimed): the value of the first assignment of technical_title,
\* whatever it is, and the default only when there is none.
C9_FirstAssignmentOrDefault ==
    (Extracted \/ Converted)
        => text_out.technical_title =
              IF Assigning("technical_title") # {}
              THEN text_in[First(Assigning("technical_title"))].value
              ELSE <<"untitled-recipe">>

\* C9 (amended): the value of the first assignment of technical_title whose
\* quoted value is not empty; the default "untitled-recipe" when the text has
\* no such assignment, be it that the key is missing or that every value
\* given to it is empty; convert_recipe returns a result in both cases.
C9_FirstNonEmptyAssignmentOrDefault ==
    /\ (Extracted \/ Converted)
        => text_out.technical_title =
              IF Valued("technical_title") # {}
              THEN text_in[First(Valued("technical_title"))].value
              ELSE <<"untitled-recipe">>
    /\ Converted => ~text_out.raised

\* an empty assignment before a valued one: the valued one is returned
C9_Witness ==
    /\ Converted
    /\ Len(text_in) = 2
    /\ text_in[1].key = "technical_title" /\ text_in[1].value = <<>>
    /\ text_in[2].key = "technical_title" /\ text_in[2].value = <<"stew">>
    /\ text_out.technical_title = <<"stew">>

\* C10 (as claimed), for the texts that give no key an empty value: the title
\* is the value of the first title key, "Food Recipe" without one; the
\* description is the value of the first description key, "Delicious food"
\* without one.
C10_TitleAndDescription ==
    (/\ text_out.op = "generate_recipe_image"
     /\ \A i \in 1..Len(text_in) : text_in[i].key # "body" => text_in[i].value # <<>>)
        => /\ text_out.title =
                 IF Assigning("title") # {}
                 THEN text_in[First(Assigning("title"))].value
                 ELSE <<"Food Recipe">>
           /\ text_out.description =
                 IF Assigning("description") # {}
                 THEN text_in[First(Assigning("description"))].value
                 ELSE <<"Delicious food">>

-----------------------------------------------------------------------------
(* Properties of the services                                                *)

\* the response under test, as the endpoint sent it
ResponseText == JoinLines(text_in)

\* C11 (as claimed): stripping the fences of a stripped text changes nothing.
C11_StripIsIdempotent ==
    text_out.op = "strip_markdown_fences twice"
        => text_out.recipe = strip_markdown_fences(ResponseText)

\* the response with every value given to the date key replaced by today's date
RECURSIVE Dated(_)
Dated(lines) ==
    LET line(k) == IF k = "date"
                   THEN DATE_KEY \o <<SP, EQ, SP, QUOTE, TODAY, QUOTE>>
                   ELSE LineTokens(k)
    IN IF lines = <<>> THEN <<>>
       ELSE IF Len(lines) = 1 THEN line(lines[1])
       ELSE line(Head(lines)) \o <<NL>> \o Dated(Tail(lines))

\* C12 (as claimed): the text returned is the fence-stripped response with
\* the quoted value of every date assignment replaced by today's date and
\* every other line as it was; without a date line it is the fence-stripped
\* response itself.
C12_OnlyDateValueRewritten ==
    text_out.op = "call_openai_for_recipe"
        => /\ text_out.recipe = strip_markdown_fences(Dated(text_in))
           /\ (\A i \in 1..Len(text_in) : text_in[i] # "date")
                 => text_out.recipe = strip_markdown_fences(ResponseText)

ContentKinds == {"words", "date", "lastupdate"}

ContentAt == {i \in 1..Len(text_in) : text_in[i] \in ContentKinds}

FirstContent == CHOOSE i \in ContentAt : \A j \in ContentAt : i <= j

LastContent == CHOOSE i \in ContentAt : \A j \in ContentAt : i >= j

\* the response is content, possibly wrapped in a leading fence marker line
\* and/or a trailing fence marker line, possibly with blank lines around
WrappedOrBare ==
    /\ ContentAt # {}
    /\ \A i \in 1..(FirstContent - 1) :
          \/ text_in[i] = "blank"
          \/ i = FirstContent - 1 /\ text_in[i] \in {"fence", "fence_markdown"}
    /\ \A i \in (LastContent + 1)..Len(text_in) :
          \/ text_in[i] = "blank"
          \/ i = LastContent + 1 /\ text_in[i] = "fence"

\* C13 (as claimed): of such a response strip_markdown_fences returns the
\* inner text, no fence marker and no outer whitespace left.
C13_FenceRemoved ==
    (text_out.op = "strip_markdown_fences" /\ WrappedOrBare)
        => text_out.recipe = JoinLines(SubSeq(text_in, FirstContent, LastContent))

-----------------------------------------------------------------------------
(* Properties of the hosting client                                          *)

\* C14: get_github_repo() in an environment that lacks the token and/or the
\* repository name raises, its message lists exactly the variables that are
\* missing (both when both are), and no call of the hosting API was made; a
\* publish in such an environment fails the same way and leaves the
\* repository as it was.
C14_MissingEnvNamed ==
    [][ (env # EnvNames /\ text_out'.op \in {"get_github_repo", "create_github_pr"})
        => /\ text_out'.raised
           /\ calls' = <<>>
           /\ text_out'.message[1] =
                 "Missing required environment variables for GitHub integration: "
           /\ \A name \in EnvNames :
                 (name \notin env) <=> (\E i \in 2..Len(text_out'.message) :
                                            text_out'.message[i] = name)
           /\ (env = {}) => text_out'.message =
                 <<"Missing required environment variables for GitHub integration: ",
                   "GITHUB_ACCESS_TOKEN", ", ", "GITHUB_REPO_NAME">>
           /\ <<refs, files, pulls>>' = <<refs, files, pulls>> ]_vars

\* get_github_repo() was called with neither variable set
C14_Witness ==
    /\ env = {}
    /\ text_out.op = "get_github_repo"
    /\ text_out.raised
    /\ Len(text_out.message) = 4
    /\ calls = <<>>

LinkExtracted == text_out.op = "extract_text_from_link"

C17_JpegIsRgb ==
    text_out.op = "recompress"
        => ~text_out.raised /\ text_out.jpeg = "RGB"

-----------------------------------------------------------------------------
(* Properties of the submission, of a failing publish and of retries         *)

\* the external operations of a submission, in the orders the claim allows
SubmissionOrders ==
    { <<"fetch">>, <<"fetch", "extract_link">>,
      <<"fetch", "extract_link", "convert">>,
      <<"fetch", "extract_link", "convert", "image">>,
      <<"convert">>, <<"convert", "image">> }

\* the step is a submission of the input form that issued an operation
Submits == pc = "page" /\ click = "convert" /\ Adds

\* every operation but the last one of the step succeeded
EarlierSucceeded == \A i \in 1..(Len(Added) - 1) : Added[i].ok

\* C16 (as claimed): scrape, conversion, image generation in this order, each
\* started only after the one before succeeded, and Preview reached only
\* when all of them succeeded.
C16_OrderAndPreviewWhenAllSucceed ==
    [][ Submits
        => /\ Ops(Added) \in SubmissionOrders
           /\ EarlierSucceeded
           /\ Step(session') = "preview" => \A i \in 1..Len(Added) : Added[i].ok ]_vars

\* C16 (amended): scrape, conversion, image generation in this order, each
\* started only after the one before succeeded; Preview is reached exactly
\* when the conversion succeeded with a text that is not empty, the image
\* generation then having been tried, whether it succeeded or failed.
C16_OrderAndPreviewWhenConverted ==
    [][ Submits
        => /\ Ops(Added) \in SubmissionOrders
           /\ EarlierSucceeded
           /\ Step(session') = "preview"
                 <=> /\ [op |-> "convert", ok |-> TRUE] \in {Added[i] : i \in 1..Len(Added)}
                     /\ session'.final_recipe # <<>>
           /\ Step(session') = "preview"
                 => /\ Added[Len(Added)].op = "image"
                    /\ pc' = "init"
                    /\ session'.final_recipe \in {clean_response(r) : r \in Responses} ]_vars

\* a link was scraped, the recipe converted, the image generation failed,
\* and the workflow is in Preview
C16_Witness ==
    /\ pc = "idle"
    /\ page = "preview"
    /\ Ops(calls) = <<"fetch", "extract_link", "convert", "image">>
    /\ ~calls[4].ok
    /\ session.compressed_image_bytes = "None"

PublishCalled == text_out'.op = "create_github_pr"

\* C19: a publish deletes nothing; when it fails after the branch was created
\* the error propagates, no URL is returned, and the branch and every file
\* whose commit succeeded are in the repository.
C19_NoRollback ==
    [][ PublishCalled
        => LET B == <<"recipe/">> \o text_out'.technical_title
               md == <<"content/post", "/">> \o text_out'.technical_title
                        \o <<"/", "index.md">>
               jpg == <<"content/post", "/">> \o text_out'.technical_title
                        \o <<"/", "image.jpg">>
               has(path) == \E f \in files' : f.branch = B /\ f.path = path
           IN /\ refs \subseteq refs'
              /\ files \subseteq files'
              /\ pulls \subseteq pulls'
              /\ (Len(calls') >= 3 /\ calls'[3] = [op |-> "create_git_ref", ok |-> TRUE]
                    /\ ~calls'[Len(calls')].ok)
                    => /\ text_out'.raised
                       /\ pr_url' = 0
                       /\ \E r \in refs' \ refs : r.name = B
                       /\ (Len(calls') >= 5) => has(md) /\ files' # files
                       /\ (Len(calls') >= 6) => has(md) /\ has(jpg) ]_vars

\* the pull request could not be opened: an orphaned branch with its two files
C19_Witness ==
    /\ text_out.op = "create_github_pr"
    /\ text_out.raised
    /\ Len(calls) = 6
    /\ calls[6] = [op |-> "create_pull", ok |-> FALSE]
    /\ \E r \in refs : r.name = <<"recipe/">> \o text_out.technical_title
    /\ Cardinality({f \in files :
                      f.branch = <<"recipe/">> \o text_out.technical_title}) = 2
    /\ \A q \in pulls : q.head # <<"recipe/">> \o text_out.technical_title

\* how often an operation may be issued after one user action: the two
\* files of a publish are committed by two calls of create_file
AtMost(op) == IF op = "create_file" THEN 2 ELSE 1

\* C20: of the operations issued since the user's last action none follows a
\* failed one, and none is issued more often than the action asks for.
C20_NoRetry ==
    /\ \A i \in 1..(Len(calls) - 1) : calls[i].ok
    /\ \A i \in 1..Len(calls) :
          Cardinality({j \in 1..Len(calls) : calls[j].op = calls[i].op})
             <= AtMost(calls[i].op)

\* the image regeneration failed and the run went on to its end
C20_Witness ==
    /\ pc = "idle"
    /\ click = "regenerate"
    /\ calls = <<[op |-> "image", ok |-> FALSE]>>
    /\ errors = <<"Error regenerating image">>

-----------------------------------------------------------------------------
(* Properties of the technical title                                         *)

\* the tokens a slug must not hold: whitespace, the path separator, the
\* parent segment, and the words written with an uppercase letter
UnsafeTokens == {SP, NL, "/", "..", "Roast", "Chicken"}

IsSlug(t) == \A i \in 1..Len(t) : t[i] \notin UnsafeTokens

\* C18 (as claimed): the technical title that extraction returns, which the
\* workflow stores and hands to publish as it is, is a slug.
C18_TechnicalTitleIsSlug ==
    ((Extracted \/ Converted) /\ ~text_out.raised)
        => IsSlug(text_out.technical_title)


-----------------------------------------------------------------------------
(* Properties of the session fields from step to step                        *)

\* the session fields whose value the step changes
Changed == {k \in SessionKeys : session'[k] # session[k]}

\* the step is the input form being submitted
InputStep == pc = "page" /\ Step(session) = "input"

\* the step is the editor of the preview
EditStep == pc = "page" /\ Step(session) = "preview"

\* C21: once the four keys exist, every step keeps them and changes only
\* its own fields: the image text extraction only extracted_text; the
\* submission of the input form nothing unless the conversion succeeded, and
\* then only final_recipe and technical_title, and compressed_image_bytes
\* only when the automatic image generation succeeded; the editor of the
\* preview only final_recipe; the image regeneration only
\* compressed_image_bytes, and only when it succeeded; publish, the start of a
\* run and the user's action nothing.
C21_FieldsChangedByOwnStep ==
    [][ DOMAIN session = SessionKeys =>
          /\ DOMAIN session' = SessionKeys
          /\ pc = "extract" =>
                /\ Changed \subseteq {"extracted_text"}
                /\ Changed # {} => Added = <<Call("extract_image", TRUE)>>
          /\ InputStep =>
                /\ Changed \subseteq {"final_recipe", "technical_title",
                                      "compressed_image_bytes"}
                /\ Changed # {} => \E i \in 1..Len(Added) :
                                       Added[i] = Call("convert", TRUE)
                /\ "compressed_image_bytes" \in Changed =>
                       Added[Len(Added)] = Call("image", TRUE)
          /\ EditStep => Changed \subseteq {"final_recipe"}
          /\ pc = "regen" =>
                /\ Changed \subseteq {"compressed_image_bytes"}
                /\ Changed # {} => Added = <<Call("image", TRUE)>>
          /\ pc \in {"publish", "init", "idle"} => Changed = {} ]_vars

\* every field holds a value of its own step: the text of an extraction, an
\* image, the technical title of the conversion, and a recipe edited by hand
C21_Witness ==
    /\ pc = "regen"
    /\ session.extracted_text = <<"words">>
    /\ session.compressed_image_bytes = "jpeg-1"
    /\ session.technical_title = <<"soup">>
    /\ session.final_recipe \in EditTexts \ {<<>>}

\* C22 (as claimed): at every publish the technical title handed to the
\* publishing client is the one that extraction returns for the recipe text
\* handed over in the same call.
C22_PublishedTitleIsExtractedTitle ==
    (PublishRequest /\ ~NoImage(session))
        => session.technical_title = extract_technical_title(session.final_recipe)

\* C23 (as claimed): a session that shows the preview shows it after every
\* step that does not clear the session.
C23_PreviewUntilReset ==
    [][ (/\ DOMAIN session = SessionKeys
         /\ Step(session) = "preview"
         /\ DOMAIN session' = SessionKeys)
        => Step(session') = "preview" ]_vars

\* C25: an image regeneration that fails leaves the session, and so the
\* stored image, as it was, shows its error and goes on to the publish
\* section; compressed_image_bytes is replaced, by the generated image, only
\* by the regeneration that succeeded, which ends the run in a rerun.
C25_FailedRegenerationKeepsImage ==
    [][ (pc = "regen" /\ click = "regenerate") =>
          /\ Added \in {<<Call("image", FALSE)>>, <<Call("image", TRUE)>>}
          /\ IF Added = <<Call("image", FALSE)>>
             THEN /\ session' = session
                  /\ NoImage(session') = NoImage(session)
                  /\ pc' = "publish"
                  /\ errors' = Append(errors, "Error regenerating image")
             ELSE /\ session'.compressed_image_bytes \in Images
                  /\ session' = [session EXCEPT !.compressed_image_bytes =
                                                    session'.compressed_image_bytes]
                  /\ pc' = "init" ]_vars

\* a regeneration failed while an image was stored, and the image is there
C25_Witness ==
    /\ pc = "publish"
    /\ click = "regenerate"
    /\ calls = <<Call("image", FALSE)>>
    /\ errors = <<"Error regenerating image">>
    /\ session.compressed_image_bytes \in Images


-----------------------------------------------------------------------------
(* Properties of the input validation and of the session initialisation      *)

\* the input form is being submitted
FormSubmitted == pc = "page" /\ click = "convert" /\ session.final_recipe = <<>>

\* what the scrape of the submitted link comes to
Scraped == extract_text_from_link(text_in.fetch_ok, text_in.scraped)

\* C24: a form submitted without a link and with a recipe text that is
\* empty or only whitespace issues no external call, changes neither the
\* session nor the repository, shows the validation error and leaves the
\* input form on screen; a form submitted with a link whose scrape returned a
\* text that is empty or only whitespace issues no call after the scrape,
\* so no conversion and no image generation, and leaves the session as it was.
C24_InputValidation ==
    [][ FormSubmitted =>
          /\ (~text_in.recipe_link /\ Strip(text_in.recipe_text) = <<>>) =>
                /\ calls' = calls
                /\ session' = session
                /\ repo' = repo
                /\ Step(session') = "input"
                /\ page' = "input"
                /\ pc' = "idle"
                /\ errors' = <<"Please provide either a link or some recipe text.">>
          /\ (text_in.recipe_link /\ ~Scraped.raised /\ Strip(Scraped.text) = <<>>) =>
                /\ Added = Scraped.calls
                /\ \A i \in 1..Len(Added) : Added[i].op \notin {"convert", "image"}
                /\ session' = session
                /\ pc' = "idle"
                /\ errors' = <<"No recipe text found or scraping failed.">> ]_vars

\* a form with no link and a text of whitespace was submitted and refused
C24_Witness ==
    /\ pc = "idle"
    /\ page = "input"
    /\ ~text_in.recipe_link
    /\ text_in.recipe_text = <<SP, NL>>
    /\ calls = <<>>
    /\ errors = <<"Please provide either a link or some recipe text.">>

\* C26: the initialisation at the start of a run leaves all four keys in
\* the session, every key that was there with the value it had and every key
\* that was absent with its default; initialising the result again changes
\* nothing; and no later step of the run takes a key away.
C26_InitializationKeepsValues ==
    [][ /\ pc = "init" =>
            /\ DOMAIN session' = SessionKeys
            /\ \A k \in SessionKeys :
                  session'[k] = IF k \in DOMAIN session THEN session[k]
                                ELSE SESSION_DEFAULTS[k]
            /\ initialize_session_state(session') = session'
        /\ pc # "init" => DOMAIN session' = SessionKeys ]_vars

\* the run started by st.rerun() after a conversion was initialised, and the
\* recipe, its technical title and its image are in the session
C26_Witness ==
    /\ pc = "extract"
    /\ click = "none"
    /\ calls = <<Call("convert", TRUE), Call("image", TRUE)>>
    /\ session.final_recipe # <<>>
    /\ session.technical_title = <<"soup">>
    /\ session.compressed_image_bytes \in Images
    /\ session.extracted_text = <<"words">>

=============================================================================
